---- MODULE Spec2Model ----
(***************************************************************************)
(* Circle9: the TypeScript transfer-orchestration core.                    *)
(*   - DragDropHandler      (Components/Transfer/DragDropHandler)          *)
(*   - TransferQueueManager (Service/transfer_queue)                       *)
(*   - SSHStateManager      (Service/ssh_state)                            *)
(* The native backend is reached through invoke()/listen(); each backend   *)
(* reply and each pushed event is an input of the handler that receives it.*)
(***************************************************************************)
EXTENDS Integers, Sequences, FiniteSets, TLC

\* null for strings, for records (dragData, a .file-item) and for paths
NULL == "null"
NoData == [null |-> TRUE]
NoPath == <<>>

(* ---------------------------- bounds ----------------------------------- *)
\* create_transfer_task invocations explored
MaxCalls == 2
\* create_transfer_task invocations explored when the ceiling is put under load
\* (one more than MAX_CONCURRENT_TRANSFERS)
MaxAdmissionCalls == 4
\* byte counts carried by a transfer_progress payload: 1..MaxBytes
MaxBytes == 2
\* successful connect_ssh invocations explored
MaxConnects == 2

(* ------------------------ program constants ---------------------------- *)
MAX_CONCURRENT_TRANSFERS == 3

\* pane ids, as the words between the hyphens of the id
PaneIds ==
    { <<"windows", "tree", "pane">>,
      <<"windows", "content", "pane">>,
      <<"linux", "tree", "pane">>,
      <<"linux", "content", "pane">>,
      <<"terminal", "log", "pane">> }

\* dataset.path / dataset.filename of a .file-item ("" when the attribute is missing)
ItemPaths == {"", "a.txt"}
ItemFilenames == {"", "a.txt"}
FileItems == [pane : PaneIds, path : ItemPaths, filename : ItemFilenames]
\* one well-formed item and one drop target, for the runs that study what
\* happens to a task after it was created
SampleItems == { [pane |-> <<"windows", "content", "pane">>,
                  path |-> "a.txt", filename |-> "a.txt"] }
SampleTargets == { <<"linux", "content", "pane">> }

\* SSHConfig values handed to connect
Hosts == {"h1", "h2"}
Users == {"u1", "u2"}
Ports == {22}
\* keyPath / password of an SSHConfig; NULL when the field is undefined
KeyPaths == {NULL, "id_rsa"}
Passwords == {NULL, "secret"}
Configs == [host : Hosts, port : Ports, username : Users,
            keyPath : KeyPaths, password : Passwords]
\* what the fields of #ssh-config-form hold when it is submitted; the inputs
\* of both credentials are in the form whichever method is selected
FormInputs == [host : {"h1"}, port : Ports, username : {"u1"},
               authMethod : {"key", "password"},
               keyPath : {"", "id_rsa"}, password : {"", "secret"}]
\* one config, for the runs that study what happens once a connection exists
SampleConfigs == { [host |-> "h1", port |-> 22, username |-> "u1",
                    keyPath |-> NULL, password |-> "secret"] }

\* the linux_credentials the ConnectionPanel holds; port 0 is a port left out
StoredCredentials == [host : {"h1"}, port : {0, 22}, username : {"u1"},
                      password : {"secret"}]

\* currentConnection === null
NoConnection == 0

Statuses == {"pending", "in_progress", "completed", "failed", "cancelled"}
Terminal == {"completed", "failed", "cancelled"}

VARIABLES
    dragData,           \* DragDropHandler.dragData
    isDragging,         \* DragDropHandler.isDragging
    dragItem,           \* dataset of the .file-item the current drag gesture started on
    calls,              \* create_transfer_task invocations, in order, with their replies
    tasks,              \* the backend's task store: task id -> status
    activeTransfers,    \* TransferQueueManager.activeTransfers (keys)
    progressCallbacks,  \* TransferQueueManager.progressCallbacks: task id -> observer
    bars,               \* the .transfer-progress-container elements on the page
    statusBar,          \* text of #status-bar written by updateProgressUI
    forwarded,          \* last sample handed to the observer of each task
    notified,           \* observers invoked by the handler of the last backend event
    queueResult,        \* the last call a client made on the queue manager, and how it ended
    lastDrop            \* the exit handleDrop took in the current drag gesture

xferVars == <<dragData, isDragging, dragItem, calls, tasks, activeTransfers,
              progressCallbacks, bars, statusBar, forwarded, notified, queueResult,
              lastDrop>>

VARIABLES
    connections,        \* SSHStateManager.connections: connection id -> SSHConnection
    currentConnection,  \* SSHStateManager.currentConnection
    issued,             \* number of connection ids the backend has handed out
    sshResult           \* how the last connect / disconnect call ended

sshVars == <<connections, currentConnection, issued, sshResult>>

VARIABLES
    request,             \* credentials carried by the last connect_ssh invocation
    configConnected,     \* SSHConfigManager.isConnected
    currentConnectionId, \* SSHConfigManager.currentConnectionId
    status,              \* ConnectionPanel.status: connected, connectionId
    startup              \* the auto-connects of application start that have run

uiVars == <<request, configConnected, currentConnectionId, status, startup>>

vars == <<xferVars, sshVars, uiVars>>

(* ------------------------- pure helpers -------------------------------- *)

\* String.prototype.includes on a pane id, for the words 'windows' / 'linux'
Includes(paneId, word) == \E i \in 1..Len(paneId) : paneId[i] = word

\* getTransferDirection with its two results exchanged
getTransferDirectionSwapped(sourcePane, destPane) ==
    IF Includes(sourcePane, "windows") /\ Includes(destPane, "linux")
    THEN "linux_to_windows"
    ELSE IF Includes(sourcePane, "linux") /\ Includes(destPane, "windows")
    THEN "windows_to_linux"
    ELSE NULL

\* getTransferDirection with || written for && in its first test
getTransferDirectionEither(sourcePane, destPane) ==
    IF Includes(sourcePane, "windows") \/ Includes(destPane, "linux")
    THEN "windows_to_linux"
    ELSE IF Includes(sourcePane, "linux") /\ Includes(destPane, "windows")
    THEN "linux_to_windows"
    ELSE NULL

getTransferDirection(sourcePane, destPane) ==
    IF Includes(sourcePane, "windows") /\ Includes(destPane, "linux")
    THEN "windows_to_linux"
    ELSE IF Includes(sourcePane, "linux") /\ Includes(destPane, "windows")
    THEN "linux_to_windows"
    ELSE NULL

getDestinationPath(destPane, filename) ==
    IF Includes(destPane, "linux") THEN <<"/home/user/", filename>>
    ELSE IF Includes(destPane, "windows") THEN <<"C:\\Users\\User\\", filename>>
    ELSE NoPath

\* extractDragData without its test for an empty path or filename
extractDragDataUnchecked(fileItem) ==
    [sourcePane |-> fileItem.pane,
     sourcePath |-> fileItem.path,
     filename   |-> fileItem.filename]

extractDragData(fileItem) ==
    IF fileItem.path = "" \/ fileItem.filename = ""
    THEN NoData
    ELSE [sourcePane |-> fileItem.pane,
          sourcePath |-> fileItem.path,
          filename   |-> fileItem.filename]

\* percentage field of a progress payload, as the backend derives it
Percentage(bytesTransferred, totalBytes) == (bytesTransferred * 100) \div totalBytes

ProgressPayloads ==
    { [taskId |-> t, bytesTransferred |-> b, totalBytes |-> n,
       percentage |-> Percentage(b, n)] :
        t \in DOMAIN tasks, b \in 1..MaxBytes, n \in 1..MaxBytes }

\* the samples of transfers of a single byte: taskId, 1 of 1, 100 %
OneBytePayloads ==
    { p \in ProgressPayloads : p.bytesTransferred = 1 /\ p.totalBytes = 1 }

(* ------------------------- derived views ------------------------------- *)

InProgress == { t \in DOMAIN tasks : tasks[t] = "in_progress" }

\* tasks held back by admission control, oldest first
waitQueue == SelectSeq([i \in 1..Len(tasks) |-> i],
                       LAMBDA t : tasks[t] = "pending")

(* ---------------- the backend, as the core relies on it ---------------- *)

\* create_transfer_task / startTransfer: the task is recorded and started
startTransfer(store) == Append(store, "in_progress")

\* a running task reaches a terminal status: the backend then pushes
\* transfer_completed / transfer_failed, or acknowledges cancel_transfer
terminate(store, taskId, outcome) == [store EXCEPT ![taskId] = outcome]

\* connect_ssh: every successful connect is issued an identifier of its own
issueConnectionId(count) == count + 1

(* ----------------------------- Init ------------------------------------ *)

Init ==
    /\ dragData = NoData
    /\ isDragging = FALSE
    /\ dragItem = NoData
    /\ calls = <<>>
    /\ tasks = <<>>
    /\ activeTransfers = {}
    /\ progressCallbacks = <<>>
    /\ bars = <<>>
    /\ statusBar = <<>>
    /\ forwarded = <<>>
    /\ notified = <<>>
    /\ queueResult = [op |-> "none", threw |-> FALSE, returned |-> "none"]
    /\ lastDrop = NULL
    /\ connections = <<>>
    /\ currentConnection = NoConnection
    /\ issued = 0
    /\ sshResult = [op |-> "none", connectionId |-> NoConnection, threw |-> FALSE]
    /\ request = NoData
    /\ configConnected = FALSE
    /\ currentConnectionId = NoConnection
    /\ status = [connected |-> FALSE, connectionId |-> NoConnection]
    /\ startup = {}

Put(f, k, v) == [x \in DOMAIN f \cup {k} |-> IF x = k THEN v ELSE f[x]]
Remove(f, k) == [x \in DOMAIN f \ {k} |-> f[x]]

(* ------------------------ DragDropHandler ------------------------------ *)

\* fileItem = NoData: the dragstart target is not inside a .file-item
handleDragStart(fileItem) ==
    /\ IF fileItem = NoData
       THEN UNCHANGED <<isDragging, dragData>>
       ELSE /\ isDragging' = TRUE
            /\ dragData' = extractDragData(fileItem)
    /\ dragItem' = IF fileItem = NoData THEN NoData
                   ELSE [path |-> fileItem.path, filename |-> fileItem.filename]
    /\ lastDrop' = NULL
    /\ UNCHANGED <<sshVars, uiVars, calls, tasks, activeTransfers, progressCallbacks, bars,
                   statusBar, forwarded, notified, queueResult>>

handleDragEnd ==
    /\ isDragging' = FALSE
    /\ dragData' = NoData
    /\ dragItem' = NoData
    /\ lastDrop' = NULL
    /\ UNCHANGED <<sshVars, uiVars, calls, tasks, activeTransfers, progressCallbacks, bars,
                   statusBar, forwarded, notified, queueResult>>

\* TransferQueueManager.createTransferTask: one create_transfer_task invocation.
\* reply = "ok": the backend creates and starts the task and returns its id;
\* reply = "error": the invocation rejects and createTransferTask rethrows.
\* Each record of calls also notes the SSH connection that was current when
\* the invocation was made (the one a transfer to or from Linux runs over).
createTransferTask(sourcePath, destPath, direction, filename, reply) ==
    /\ IF reply = "ok"
       THEN /\ tasks' = startTransfer(tasks)
            /\ calls' = Append(calls, [sourcePath |-> sourcePath, destPath |-> destPath,
                                       direction |-> direction, filename |-> filename,
                                       ok |-> TRUE, taskId |-> Len(tasks) + 1, resolved |-> FALSE,
                                       connection |-> currentConnection])
       ELSE /\ tasks' = tasks
            /\ calls' = Append(calls, [sourcePath |-> sourcePath, destPath |-> destPath,
                                       direction |-> direction, filename |-> filename,
                                       ok |-> FALSE, taskId |-> 0, resolved |-> FALSE,
                                       connection |-> currentConnection])

\* initiateTransfer up to its await of createTransferTask
initiateTransfer(data, destPane, direction, reply) ==
    LET destPath == getDestinationPath(destPane, data.filename) IN
    IF destPath = NoPath
    THEN UNCHANGED <<calls, tasks>>
    ELSE createTransferTask(data.sourcePath, destPath, direction, data.filename, reply)

\* handleDrop without the same-pane test, taking the direction from the
\* destination pane alone
handleDropNoPaneCheck(target) ==
    /\ IF dragData = NoData
       THEN /\ lastDrop' = "no_drag_data"
            /\ UNCHANGED <<calls, tasks>>
       ELSE LET direction == IF Includes(target, "linux") THEN "windows_to_linux"
                             ELSE IF Includes(target, "windows") THEN "linux_to_windows"
                             ELSE NULL IN
            IF direction = NULL
            THEN /\ lastDrop' = "no_direction"
                 /\ UNCHANGED <<calls, tasks>>
            ELSE /\ lastDrop' = IF dragData.sourcePane = target
                                THEN "same_pane" ELSE "initiated"
                 /\ \E reply \in {"ok", "error"} :
                        initiateTransfer(dragData, target, direction, reply)
    /\ UNCHANGED <<sshVars, uiVars, dragData, isDragging, dragItem, activeTransfers,
                   progressCallbacks, bars, statusBar, forwarded, notified, queueResult>>

handleDrop(target) ==
    /\ IF dragData = NoData
       THEN /\ lastDrop' = "no_drag_data"
            /\ UNCHANGED <<calls, tasks>>
       ELSE IF dragData.sourcePane = target
       THEN /\ lastDrop' = "same_pane"
            /\ UNCHANGED <<calls, tasks>>
       ELSE LET direction == getTransferDirection(dragData.sourcePane, target) IN
            IF direction = NULL
            THEN /\ lastDrop' = "no_direction"
                 /\ UNCHANGED <<calls, tasks>>
            ELSE /\ lastDrop' = "initiated"
                 /\ \E reply \in {"ok", "error"} :
                        initiateTransfer(dragData, target, direction, reply)
    /\ UNCHANGED <<sshVars, uiVars, dragData, isDragging, dragItem, activeTransfers,
                   progressCallbacks, bars, statusBar, forwarded, notified, queueResult>>

\* onProgress keeping the observer that is already registered for the task
onProgressFirstWins(taskId, callback) ==
    progressCallbacks' = IF taskId \in DOMAIN progressCallbacks
                         THEN progressCallbacks
                         ELSE Put(progressCallbacks, taskId, callback)

\* onProgress(taskId, callback): the observer is named by the container it draws into
onProgress(taskId, callback) == progressCallbacks' = Put(progressCallbacks, taskId, callback)

\* a call of onProgress from outside showTransferProgress: some client
\* registers, for a task, an observer drawing into a container of the page
onProgressCall(taskId, callback) ==
    /\ taskId \in DOMAIN tasks
    /\ callback \in DOMAIN bars
    /\ onProgress(taskId, callback)
    /\ queueResult' = [op |-> "onProgress", threw |-> FALSE, returned |-> "void"]
    /\ UNCHANGED <<sshVars, uiVars, dragData, isDragging, dragItem, calls, tasks, activeTransfers,
                   bars, statusBar, forwarded, notified, lastDrop>>

showTransferProgress(taskId) ==
    /\ bars' = Put(bars, taskId, [width |-> 0, text |-> 0])
    /\ onProgress(taskId, taskId)

\* initiateTransfer after its await: the reply of call i reaches the handler
initiateTransferResume(i) ==
    /\ i \in 1..Len(calls)
    /\ ~calls[i].resolved
    /\ calls' = [calls EXCEPT ![i].resolved = TRUE]
    /\ IF calls[i].ok
       THEN showTransferProgress(calls[i].taskId)
       ELSE UNCHANGED <<bars, progressCallbacks>>   \* showError: a notification only
    /\ UNCHANGED <<sshVars, uiVars, dragData, isDragging, dragItem, tasks, activeTransfers,
                   statusBar, forwarded, notified, queueResult,
                   lastDrop>>

(* ---------------------- TransferQueueManager --------------------------- *)

\* every .transfer-progress bar on the page gets the sample's percentage
updateProgressUI(progress) ==
    [c \in DOMAIN bars |-> [bars[c] EXCEPT !.width = progress.percentage]]

\* listener of 'transfer_progress'
handleTransferProgress(progress) ==
    /\ progress \in ProgressPayloads
    /\ statusBar' = <<progress.percentage>>
    /\ IF progress.taskId \in DOMAIN progressCallbacks
       THEN LET c == progressCallbacks[progress.taskId] IN
            /\ bars' = [updateProgressUI(progress) EXCEPT
                           ![c] = [width |-> progress.percentage,
                                   text  |-> progress.percentage]]
            /\ forwarded' = Put(forwarded, progress.taskId,
                                [bytesTransferred |-> progress.bytesTransferred,
                                 totalBytes |-> progress.totalBytes])
            /\ notified' = <<c>>
       ELSE /\ bars' = updateProgressUI(progress)
            /\ forwarded' = forwarded
            /\ notified' = <<>>
    /\ UNCHANGED <<sshVars, uiVars, dragData, isDragging, dragItem, calls, tasks, activeTransfers,
                   progressCallbacks, queueResult, lastDrop>>

\* the 'transfer_completed' listener dropping every registered observer
handleTransferCompletedClearsAll(taskId) ==
    /\ taskId \in InProgress
    /\ tasks' = terminate(tasks, taskId, "completed")
    /\ activeTransfers' = activeTransfers \ {taskId}
    /\ progressCallbacks' = <<>>
    /\ notified' = <<>>
    /\ UNCHANGED <<sshVars, uiVars, dragData, isDragging, dragItem, calls, bars, statusBar,
                   forwarded, queueResult, lastDrop>>

\* listener of 'transfer_completed'; the backend pushes it for a running task
handleTransferCompleted(taskId) ==
    /\ taskId \in InProgress
    /\ tasks' = terminate(tasks, taskId, "completed")
    /\ activeTransfers' = activeTransfers \ {taskId}
    /\ progressCallbacks' = Remove(progressCallbacks, taskId)
    /\ notified' = <<>>
    /\ UNCHANGED <<sshVars, uiVars, dragData, isDragging, dragItem, calls, bars, statusBar,
                   forwarded, queueResult, lastDrop>>

\* listener of 'transfer_failed'; the backend pushes it for a running task
handleTransferFailed(taskId) ==
    /\ taskId \in InProgress
    /\ tasks' = terminate(tasks, taskId, "failed")
    /\ activeTransfers' = activeTransfers \ {taskId}
    /\ progressCallbacks' = Remove(progressCallbacks, taskId)
    /\ notified' = <<>>
    /\ UNCHANGED <<sshVars, uiVars, dragData, isDragging, dragItem, calls, bars, statusBar,
                   forwarded, queueResult, lastDrop>>

\* cancelTransfer(taskId): reply = "ok" when cancel_transfer resolves
cancelTransfer(taskId, reply) ==
    /\ taskId \in InProgress
    /\ IF reply = "ok"
       THEN /\ tasks' = terminate(tasks, taskId, "cancelled")
            /\ activeTransfers' = activeTransfers \ {taskId}
       ELSE UNCHANGED <<tasks, activeTransfers>>
    /\ queueResult' = [op |-> "cancelTransfer", threw |-> (reply = "error"),
                       returned |-> "void"]
    /\ UNCHANGED <<sshVars, uiVars, dragData, isDragging, dragItem, calls, progressCallbacks, bars,
                   statusBar, forwarded, notified, lastDrop>>

\* retryTransfer(taskId): one retry_transfer invocation for a task id the
\* caller knows; the manager keeps no record of its own and returns nothing.
\* reply = "error": retry_transfer rejects and retryTransfer rethrows.
retryTransfer(taskId, reply) ==
    /\ taskId \in DOMAIN tasks
    /\ queueResult' = [op |-> "retryTransfer", threw |-> (reply = "error"),
                       returned |-> "void"]
    /\ UNCHANGED <<sshVars, uiVars, dragData, isDragging, dragItem, calls, tasks, activeTransfers,
                   progressCallbacks, bars, statusBar, forwarded, notified, lastDrop>>

\* getTransferProgress(taskId): a rejected get_transfer_progress is logged and
\* null is returned
getTransferProgress(taskId, reply) ==
    /\ taskId \in DOMAIN tasks
    /\ queueResult' = [op |-> "getTransferProgress", threw |-> FALSE,
                       returned |-> IF reply = "ok" THEN "progress" ELSE "null"]
    /\ UNCHANGED <<sshVars, uiVars, dragData, isDragging, dragItem, calls, tasks, activeTransfers,
                   progressCallbacks, bars, statusBar, forwarded, notified, lastDrop>>

\* getActiveTransfers(): a rejected get_active_transfers is logged and [] is
\* returned
getActiveTransfers(reply) ==
    /\ queueResult' = [op |-> "getActiveTransfers", threw |-> FALSE,
                       returned |-> IF reply = "ok" THEN "transfers" ELSE "[]"]
    /\ UNCHANGED <<sshVars, uiVars, dragData, isDragging, dragItem, calls, tasks, activeTransfers,
                   progressCallbacks, bars, statusBar, forwarded, notified, lastDrop>>

(* -------------------------- SSHStateManager ---------------------------- *)

\* ConnectionPanel.handleConnectionChange(connected, details): the new status
handleConnectionChange(connected, details) ==
    IF connected /\ details # NoData
    THEN [connected |-> TRUE, connectionId |-> details.connectionId]
    ELSE IF ~connected
    THEN [connected |-> FALSE, connectionId |-> NoConnection]
    ELSE [status EXCEPT !.connected = connected]

\* SSHStateManager.connect(config), whoever calls it.
\* reply = "ok": connect_ssh resolves with a newly issued id;
\* reply = "error": connect_ssh rejects and connect rethrows.
sshStateConnect(config, reply) ==
    /\ request' = [keyPath |-> config.keyPath, password |-> config.password]
    /\ IF reply = "ok"
       THEN LET connectionId == issueConnectionId(issued) IN
            /\ issued' = connectionId
            /\ connections' = Put(connections, connectionId,
                                  [id |-> connectionId, host |-> config.host,
                                   port |-> config.port, username |-> config.username,
                                   connected |-> TRUE])
            /\ currentConnection' = connectionId
            /\ sshResult' = [op |-> "connect", connectionId |-> connectionId,
                             threw |-> FALSE]
       ELSE /\ sshResult' = [op |-> "connect", connectionId |-> NoConnection,
                             threw |-> TRUE]
            /\ UNCHANGED <<connections, currentConnection, issued>>

\* connect dropping the current pointer when connect_ssh rejects
connectResetsOnError(config, reply) ==
    /\ request' = [keyPath |-> config.keyPath, password |-> config.password]
    /\ IF reply = "ok"
       THEN LET connectionId == issueConnectionId(issued) IN
            /\ issued' = connectionId
            /\ connections' = Put(connections, connectionId,
                                  [id |-> connectionId, host |-> config.host,
                                   port |-> config.port, username |-> config.username,
                                   connected |-> TRUE])
            /\ currentConnection' = connectionId
            /\ sshResult' = [op |-> "connect", connectionId |-> connectionId,
                             threw |-> FALSE]
       ELSE /\ sshResult' = [op |-> "connect", connectionId |-> NoConnection,
                             threw |-> TRUE]
            /\ currentConnection' = NoConnection
            /\ UNCHANGED <<connections, issued>>
    /\ UNCHANGED <<xferVars, configConnected, currentConnectionId, status, startup>>

\* connect(config) called on the SSHStateManager directly
connect(config, reply) ==
    /\ sshStateConnect(config, reply)
    /\ UNCHANGED <<xferVars, configConnected, currentConnectionId, status, startup>>

\* SSHStateManager.disconnect(connectionId), whoever calls it.
\* reply = "ok": disconnect_ssh resolves;
\* reply = "error": disconnect_ssh rejects and disconnect rethrows.
sshStateDisconnect(connectionId, reply) ==
    IF reply = "ok"
    THEN /\ connections' = Remove(connections, connectionId)
         /\ currentConnection' = IF currentConnection = connectionId
                                 THEN NoConnection ELSE currentConnection
         /\ sshResult' = [op |-> "disconnect", connectionId |-> connectionId,
                          threw |-> FALSE]
    ELSE /\ sshResult' = [op |-> "disconnect", connectionId |-> connectionId,
                          threw |-> TRUE]
         /\ UNCHANGED <<connections, currentConnection>>

\* disconnect deleting the record before disconnect_ssh has answered
disconnectOptimistic(connectionId, reply) ==
    /\ connections' = Remove(connections, connectionId)
    /\ currentConnection' = IF currentConnection = connectionId
                            THEN NoConnection ELSE currentConnection
    /\ sshResult' = [op |-> "disconnect", connectionId |-> connectionId,
                     threw |-> (reply = "error")]
    /\ UNCHANGED <<issued, xferVars, uiVars>>

\* disconnect(connectionId) called on the SSHStateManager directly
disconnect(connectionId, reply) ==
    /\ sshStateDisconnect(connectionId, reply)
    /\ UNCHANGED <<issued, xferVars, uiVars>>

\* the 'ssh-disconnected' listener clearing the pointer whichever id is reported
sshDisconnectedClearsPointer(connectionId) ==
    /\ connectionId \in 1..issued
    /\ connections' = Remove(connections, connectionId)
    /\ currentConnection' = NoConnection
    /\ status' = handleConnectionChange(FALSE, NoData)
    /\ UNCHANGED <<issued, sshResult, xferVars, request, configConnected,
                   currentConnectionId, startup>>

\* the event 'ssh-disconnected', which the backend pushes for an id it has
\* issued: the listener of SSHStateManager, and the listener of
\* ConnectionPanel, which takes no payload
sshDisconnected(connectionId) ==
    /\ connectionId \in 1..issued
    /\ connections' = Remove(connections, connectionId)
    /\ currentConnection' = IF currentConnection = connectionId
                            THEN NoConnection ELSE currentConnection
    /\ status' = handleConnectionChange(FALSE, NoData)
    /\ UNCHANGED <<issued, sshResult, xferVars, request, configConnected,
                   currentConnectionId, startup>>

\* the event 'ssh-connected' with payload {connectionId}: listener of ConnectionPanel
sshConnected(connectionId) ==
    /\ connectionId \in 1..issued
    /\ status' = handleConnectionChange(TRUE, [connectionId |-> connectionId])
    /\ UNCHANGED <<sshVars, xferVars, request, configConnected, currentConnectionId,
                   startup>>

\* isConnected(connectionId). reply is the backend's answer to is_ssh_connected,
\* or "error" when it rejects: the error is logged and false is returned.
isConnected(connectionId, reply) ==
    /\ sshResult' = [op |-> "isConnected", connectionId |-> connectionId,
                     threw |-> FALSE, returned |-> (reply = "true")]
    /\ UNCHANGED <<connections, currentConnection, issued, xferVars, uiVars>>

\* listConnections(). reply = "error": list_ssh_connections rejects, the error
\* is logged and [] is returned.
listConnections(reply) ==
    /\ sshResult' = [op |-> "listConnections", connectionId |-> NoConnection,
                     threw |-> FALSE,
                     returned |-> IF reply = "ok" THEN "connections" ELSE "[]"]
    /\ UNCHANGED <<connections, currentConnection, issued, xferVars, uiVars>>

getCurrentConnection ==
    IF currentConnection = NoConnection THEN NoData
    ELSE IF currentConnection \in DOMAIN connections
    THEN connections[currentConnection]
    ELSE NoData

\* setCurrentConnection without its connections.has test
setCurrentConnectionUnchecked(connectionId) ==
    /\ currentConnection' = connectionId
    /\ UNCHANGED <<connections, issued, sshResult, xferVars, uiVars>>

setCurrentConnection(connectionId) ==
    /\ currentConnection' = IF connectionId \in DOMAIN connections
                            THEN connectionId ELSE currentConnection
    /\ UNCHANGED <<connections, issued, sshResult, xferVars, uiVars>>

(* -------------------------- SSHConfigManager --------------------------- *)

\* the SSHConfigForm that handleFormSubmit builds from the FormData
formConfig(form) ==
    [host |-> form.host, port |-> form.port, username |-> form.username,
     useKeyAuth |-> (form.authMethod = "key"),
     keyPath  |-> IF form.keyPath = "" THEN NULL ELSE form.keyPath,
     password |-> IF form.password = "" THEN NULL ELSE form.password]

\* handleFormSubmit: SSHConfigManager.connect(config) with the form's config;
\* when sshStateManager.connect throws, only an error notification is shown
handleFormSubmit(form, reply) ==
    LET config == formConfig(form) IN
    /\ sshStateConnect([host |-> config.host, port |-> config.port,
                        username |-> config.username, keyPath |-> config.keyPath,
                        password |-> config.password], reply)
    /\ IF reply = "ok"
       THEN /\ currentConnectionId' = issueConnectionId(issued)
            /\ configConnected' = TRUE
       ELSE UNCHANGED <<currentConnectionId, configConnected>>
    /\ UNCHANGED <<xferVars, status, startup>>

\* SSHConfigManager.disconnect()
configManagerDisconnect(reply) ==
    /\ IF currentConnectionId # NoConnection
       THEN /\ sshStateDisconnect(currentConnectionId, reply)
            /\ IF reply = "ok"
               THEN /\ currentConnectionId' = NoConnection
                    /\ configConnected' = FALSE
               ELSE UNCHANGED <<currentConnectionId, configConnected>>
       ELSE UNCHANGED <<connections, currentConnection, sshResult,
                        currentConnectionId, configConnected>>
    /\ UNCHANGED <<issued, xferVars, request, status, startup>>

isSSHConnected == configConnected

(* --------------------------- ConnectionPanel --------------------------- *)

\* the body of ConnectionPanel.testConnection once credentials are present:
\* sshStateManager.connect with the password, then the new status
panelConnect(credentials, reply) ==
    /\ sshStateConnect([host |-> credentials.host,
                        port |-> IF credentials.port = 0 THEN 22 ELSE credentials.port,
                        username |-> credentials.username, keyPath |-> NULL,
                        password |-> credentials.password], reply)
    /\ status' = IF reply = "ok"
                 THEN [connected |-> TRUE, connectionId |-> issueConnectionId(issued)]
                 ELSE [connected |-> FALSE, connectionId |-> NoConnection]

\* ConnectionPanel.testConnection, from the Test button
testConnection(credentials, reply) ==
    /\ panelConnect(credentials, reply)
    /\ UNCHANGED <<xferVars, configConnected, currentConnectionId, startup>>

\* ConnectionPanel.isConnected()
panelIsConnected == status.connected

(* ------------------------------ startup -------------------------------- *)

\* the DOMContentLoaded handler's auto-connect with the stored ssh_config
\* (auto_connect not false); a failure is only logged
initializeSSHConnection(sshConfig, reply) ==
    /\ "entry" \notin startup
    /\ sshStateConnect(sshConfig, reply)
    /\ startup' = startup \cup {"entry"}
    /\ UNCHANGED <<xferVars, configConnected, currentConnectionId, status>>

\* loadStoredCredentials -> attemptAutoConnect -> testConnection with the
\* stored linux_credentials (auto_connect not false)
attemptAutoConnect(storedCredentials, reply) ==
    /\ "panel" \notin startup
    /\ panelConnect(storedCredentials, reply)
    /\ startup' = startup \cup {"panel"}
    /\ UNCHANGED <<xferVars, configConnected, currentConnectionId>>

(* ------------------------------ claims --------------------------------- *)

\* C1: with ceiling MAX_CONCURRENT_TRANSFERS, the number of tasks that were
\* started and have not reached a terminal state never exceeds the ceiling.
CE_C1 == Cardinality(InProgress) <= MAX_CONCURRENT_TRANSFERS

\* C2: a request made while the ceiling is reached waits, last in arrival
\* order, and the step that handles a terminal event promotes the head of a
\* non-empty wait queue to in_progress.
CE_C2 ==
    [][ /\ \A t \in DOMAIN tasks' \ DOMAIN tasks :
              Cardinality(InProgress) >= MAX_CONCURRENT_TRANSFERS
                  => /\ tasks'[t] = "pending"
                     /\ waitQueue' = Append(waitQueue, t)
        /\ ((\E t \in InProgress : tasks'[t] \in Terminal) /\ waitQueue # <<>>)
              => tasks'[Head(waitQueue)] = "in_progress" ]_vars

\* C3: once a task is completed, failed or cancelled its status never changes,
\* and a transfer_progress sample for it that arrives afterwards changes
\* neither what its progress bar shows nor what its observer was handed.
CE_C3 ==
    [][ \A t \in DOMAIN tasks :
          tasks[t] \in Terminal =>
            /\ tasks'[t] = tasks[t]
            /\ \A p \in ProgressPayloads :
                  (p.taskId = t /\ handleTransferProgress(p)) =>
                     /\ t \in DOMAIN bars => bars'[t] = bars[t]
                     /\ t \in DOMAIN forwarded' =>
                           (t \in DOMAIN forwarded /\ forwarded'[t] = forwarded[t]) ]_vars

\* C4: the byte count handed on for a task never goes down: a sample with a
\* lower bytesTransferred than the one recorded for the task is ignored.
CE_C4 ==
    [][ \A t \in DOMAIN forwarded :
          /\ t \in DOMAIN forwarded'
          /\ forwarded'[t].bytesTransferred >= forwarded[t].bytesTransferred ]_vars

\* C5: the byte count applied and shown to a task's observer never exceeds
\* the task's total byte count.
CE_C5 ==
    \A t \in DOMAIN forwarded :
        forwarded[t].bytesTransferred <= forwarded[t].totalBytes

\* C6: a drop on the pane the drag started from issues no create_transfer_task
\* call, registers no observer and leaves the set of tasks unchanged (a step
\* that changes any of these is not such a drop).
T_C6 ==
    [][ \/ UNCHANGED <<calls, tasks, progressCallbacks, bars>>
        \/ ~ \E target \in PaneIds :
                /\ dragData # NoData
                /\ dragData.sourcePane = target
                /\ handleDrop(target) ]_vars

W_C6 == lastDrop = "same_pane" /\ dragData # NoData

\* C7: while the drag in progress started on an item whose path or filename is
\* empty, no drop on any pane issues a create_transfer_task call or changes
\* the set of tasks.
T_C7 ==
    [][ \/ UNCHANGED <<calls, tasks, progressCallbacks, bars>>
        \/ ~ \E target \in PaneIds :
                /\ dragItem # NoData
                /\ dragItem.path = "" \/ dragItem.filename = ""
                /\ handleDrop(target) ]_vars

W_C7 ==
    /\ dragItem # NoData
    /\ dragItem.path = "" \/ dragItem.filename = ""
    /\ lastDrop = "no_drag_data"

\* a pane is local (Windows), remote (Linux) or neither
PaneClass(paneId) ==
    IF Includes(paneId, "windows") THEN "local"
    ELSE IF Includes(paneId, "linux") THEN "remote"
    ELSE "neither"

\* C8: a drop between two distinct panes of the same class, or with a pane of
\* neither class, issues no create_transfer_task call and creates no task.
T_C8 ==
    [][ \/ UNCHANGED <<calls, tasks, progressCallbacks, bars>>
        \/ ~ \E target \in PaneIds :
                /\ dragData # NoData
                /\ dragData.sourcePane # target
                /\ \/ PaneClass(dragData.sourcePane) = PaneClass(target)
                   \/ PaneClass(dragData.sourcePane) = "neither"
                   \/ PaneClass(target) = "neither"
                /\ handleDrop(target) ]_vars

W_C8 ==
    /\ lastDrop = "no_direction"
    /\ dragData # NoData
    /\ dragData.sourcePane = <<"windows", "tree", "pane">>

\* C9: the registry never holds two Connection records for the same host and
\* username: a second connect with the same host and username while the first
\* connection is live returns the existing id and adds no record.
CE_C9 ==
    \A a, b \in DOMAIN connections :
        (/\ connections[a].host = connections[b].host
         /\ connections[a].username = connections[b].username
         /\ connections[a].connected /\ connections[b].connected)
            => a = b

\* C10: disconnect of an identifier that is absent from the registry does not
\* throw and leaves the registry and the current pointer unchanged.
CE_C10 ==
    [][ \A connectionId \in 1..MaxConnects, reply \in {"ok", "error"} :
          (connectionId \notin DOMAIN connections /\ disconnect(connectionId, reply))
              => /\ ~sshResult'.threw
                 /\ UNCHANGED <<connections, currentConnection>> ]_vars

\* C11: the step that handles ssh-disconnected(X) turns every task that was
\* started over connection X and is still pending or in progress into failed.
CE_C11 ==
    [][ \A X \in 1..MaxConnects :
          sshDisconnected(X) =>
            \A i \in 1..Len(calls) :
               (/\ calls[i].ok
                /\ calls[i].connection = X
                /\ tasks[calls[i].taskId] \in {"pending", "in_progress"})
                   => tasks'[calls[i].taskId] = "failed" ]_vars

\* C12: the step that handles ssh-disconnected(X) removes X from the registry,
\* clears the current pointer exactly when it was X, and leaves the pointer
\* (when it was another id) and every other Connection record as they were.
T_C12 ==
    [][ \A X \in 1..MaxConnects :
          sshDisconnected(X) =>
            /\ DOMAIN connections' = DOMAIN connections \ {X}
            /\ \A c \in DOMAIN connections \ {X} : connections'[c] = connections[c]
            /\ currentConnection = X => currentConnection' = NoConnection
            /\ currentConnection # X => currentConnection' = currentConnection ]_vars

\* connection 2 was reported lost (no disconnect call followed its connect)
\* while connection 1 was the current one
W_C12 ==
    /\ sshResult = [op |-> "connect", connectionId |-> 2, threw |-> FALSE]
    /\ 2 \notin DOMAIN connections
    /\ currentConnection = 1
    /\ 1 \in DOMAIN connections

\* C13: the current pointer is empty or names a Connection that is in the
\* registry with connected = true.
T_C13 ==
    \/ currentConnection = NoConnection
    \/ /\ currentConnection \in DOMAIN connections
       /\ connections[currentConnection].connected

\* the pointer was moved back to connection 1 and connection 2 disconnected
W_C13 ==
    /\ currentConnection = 1
    /\ sshResult = [op |-> "disconnect", connectionId |-> 2, threw |-> FALSE]
    /\ issued = 2

\* under a ceiling with first-come admission, a task that has
\* MAX_CONCURRENT_TRANSFERS older tasks still unfinished is waiting (pending)
stillPending(t) ==
    Cardinality({ u \in 1..(t - 1) : tasks[u] \notin Terminal }) >= MAX_CONCURRENT_TRANSFERS

\* C14: cancelling a task that is still pending makes it cancelled whatever
\* the backend would answer, and the task was not in progress before.
CE_C14 ==
    [][ \A t \in DOMAIN tasks, reply \in {"ok", "error"} :
          (stillPending(t) /\ cancelTransfer(t, reply)) =>
             /\ tasks[t] # "in_progress"
             /\ tasks'[t] = "cancelled" ]_vars

\* C15: once cancelTransfer(T) has completed, the handler of a
\* transfer_progress event for T invokes no observer and hands on no sample.
CE_C15 ==
    [][ \A p \in ProgressPayloads :
          (tasks[p.taskId] = "cancelled" /\ handleTransferProgress(p)) =>
             /\ notified' = <<>>
             /\ forwarded' = forwarded ]_vars

\* C16: a retry of a task that is not failed is rejected and changes nothing;
\* a retry that is accepted hands back the identifier of a new task.
CE_C16 ==
    [][ \A t \in DOMAIN tasks, reply \in {"ok", "error"} :
          retryTransfer(t, reply) =>
             /\ tasks[t] # "failed" =>
                    (queueResult'.threw /\ UNCHANGED <<tasks, calls, progressCallbacks>>)
             /\ ~queueResult'.threw => queueResult'.returned = "taskId" ]_vars

\* C17: a request whose create_transfer_task call failed has a task recorded
\* as failed, and no task whose start call failed is in progress.
CE_C17 ==
    \A i \in 1..Len(calls) :
        ~calls[i].ok =>
            /\ calls[i].taskId \in DOMAIN tasks
            /\ tasks[calls[i].taskId] = "failed"
            /\ calls[i].taskId \notin InProgress \cup activeTransfers

\* C18: the step that handles transfer_completed or transfer_failed for a
\* task with a registered observer unregisters that observer and invokes it,
\* and only it, once; a later transfer_progress event of the task invokes nobody.
CE_C18 ==
    [][ /\ \A t \in DOMAIN progressCallbacks :
              (handleTransferCompleted(t) \/ handleTransferFailed(t)) =>
                  /\ t \notin DOMAIN progressCallbacks'
                  /\ notified' = <<progressCallbacks[t]>>
        /\ \A p \in ProgressPayloads :
              (tasks[p.taskId] \in {"completed", "failed"} /\ handleTransferProgress(p))
                  => notified' = <<>> ]_vars

\* C19: a task id has at most one observer: onProgress(T, g) leaves g, and
\* nothing else, registered for T whatever was registered before, and the
\* handler of a progress sample for T invokes the observer registered for T
\* once and no other observer.
T_C19 ==
    [][ /\ \/ queueResult'.op # "onProgress"
           \/ \A t \in DOMAIN tasks, g \in DOMAIN bars :
                 onProgressCall(t, g) =>
                     /\ progressCallbacks'[t] = g
                     /\ \A u \in DOMAIN progressCallbacks \ {t} :
                            progressCallbacks'[u] = progressCallbacks[u]
        /\ \/ progressCallbacks' # progressCallbacks
           \/ \A t \in DOMAIN progressCallbacks :
                 handleTransferProgress([taskId |-> t, bytesTransferred |-> 1,
                                         totalBytes |-> 1, percentage |-> 100])
                     => notified' = <<progressCallbacks[t]>> ]_vars

\* task 1 had the observer of its own container registered by
\* showTransferProgress, then observer 2 was registered for it, and a sample
\* of task 1 (no sample of task 2 was ever handed on) went to observer 2
W_C19 ==
    /\ 1 \in DOMAIN bars
    /\ 1 \in DOMAIN progressCallbacks
    /\ progressCallbacks[1] = 2
    /\ notified = <<2>>
    /\ 2 \notin DOMAIN forwarded

\* C20: when the backend call made by connect, isConnected, listConnections,
\* getTransferProgress, getActiveTransfers, cancelTransfer or retryTransfer
\* fails, the operation ends by throwing; a failed create_transfer_task call
\* is recorded in calls as rejected by createTransferTask itself.
CE_C20 ==
    [][ /\ \A config \in Configs : connect(config, "error") => sshResult'.threw
        /\ \A c \in 1..MaxConnects : isConnected(c, "error") => sshResult'.threw
        /\ listConnections("error") => sshResult'.threw
        /\ \A t \in DOMAIN tasks :
              /\ getTransferProgress(t, "error") => queueResult'.threw
              /\ cancelTransfer(t, "error") => queueResult'.threw
              /\ retryTransfer(t, "error") => queueResult'.threw
        /\ getActiveTransfers("error") => queueResult'.threw ]_vars

\* C21: a connect whose connect_ssh call is rejected throws, adds no
\* Connection, and leaves the registry and the current pointer as they were.
T_C21 ==
    [][ \A config \in Configs :
          connect(config, "error") =>
             /\ sshResult'.threw
             /\ connections' = connections
             /\ currentConnection' = currentConnection ]_vars

\* a connect was rejected while an earlier connection is registered and current
W_C21 ==
    /\ sshResult = [op |-> "connect", connectionId |-> NoConnection, threw |-> TRUE]
    /\ currentConnection # NoConnection
    /\ currentConnection \in DOMAIN connections

\* C30: a disconnect whose disconnect_ssh call fails throws and leaves the
\* registry and the current pointer as they were; the Connection is removed,
\* and the pointer cleared if it named it, when the call succeeds.
T_C30 ==
    [][ \A c \in 1..MaxConnects :
          /\ disconnect(c, "error") =>
                /\ sshResult'.threw
                /\ connections' = connections
                /\ currentConnection' = currentConnection
          /\ disconnect(c, "ok") =>
                /\ ~sshResult'.threw
                /\ c \notin DOMAIN connections'
                /\ currentConnection' # c ]_vars

\* disconnect of the current connection 1 failed; it is still registered and current
W_C30 ==
    /\ sshResult = [op |-> "disconnect", connectionId |-> 1, threw |-> TRUE]
    /\ 1 \in DOMAIN connections
    /\ currentConnection = 1

\* C22: every connect_ssh request carries exactly one credential: a key path
\* or a password, not both and not neither.
CE_C22 ==
    request # NoData => ((request.keyPath = NULL) # (request.password = NULL))

\* C27: whenever isSSHConnected() is true, the identifier SSHConfigManager
\* recorded at connect time is in the registry.
CE_C27 == isSSHConnected => currentConnectionId \in DOMAIN connections

CE_C24 ==
    \A t \in DOMAIN progressCallbacks : tasks[t] \notin {"completed", "failed"}

\* C25: the handler of a progress sample of task T unregisters nobody and
\* invokes no observer that is registered for another task; the handler of a
\* terminal event of T invokes no such observer either and leaves the
\* observers of all other tasks registered.
T_C25 ==
    [][ \/ UNCHANGED <<progressCallbacks, notified, statusBar, tasks>>
        \/ /\ \A t \in DOMAIN tasks :
                 handleTransferProgress([taskId |-> t, bytesTransferred |-> 1,
                                         totalBytes |-> 1, percentage |-> 100]) =>
                    /\ progressCallbacks' = progressCallbacks
                    /\ \A u \in DOMAIN progressCallbacks \ {t}, k \in 1..Len(notified') :
                           notified'[k] # progressCallbacks[u]
           /\ \A t \in DOMAIN tasks :
                 (handleTransferCompleted(t) \/ handleTransferFailed(t)) =>
                    /\ \A u \in DOMAIN progressCallbacks \ {t} :
                           /\ u \in DOMAIN progressCallbacks'
                           /\ progressCallbacks'[u] = progressCallbacks[u]
                    /\ \A u \in DOMAIN progressCallbacks \ {t}, k \in 1..Len(notified') :
                           notified'[k] # progressCallbacks[u] ]_vars

\* task 1 was observed, got a sample and completed; the observer of task 2,
\* registered all along, is still registered
W_C25 ==
    /\ Len(tasks) >= 2
    /\ tasks[1] = "completed"
    /\ 1 \in DOMAIN forwarded
    /\ 2 \in DOMAIN bars
    /\ DOMAIN progressCallbacks = {2}
    /\ tasks[2] = "in_progress"

\* C26: once both auto-connects of application start have run against a
\* stored ssh_config and stored linux_credentials of the same host and
\* username, the registry holds at most one Connection of that host and
\* username.
CE_C26 ==
    startup = {"entry", "panel"} =>
        \A c1, c2 \in DOMAIN connections :
            (/\ connections[c1].host = connections[c2].host
             /\ connections[c1].username = connections[c2].username) => c1 = c2

\* C28: the panel stays connected while the connection it established is in
\* the registry: an ssh-disconnected event for another id leaves
\* isConnected() true, and a successful disconnect of the panel's own
\* connection through the registry makes it false.
CE_C28 ==
    [][ \/ panelIsConnected' = panelIsConnected /\ connections' = connections
        \/ \A c \in 1..MaxConnects :
              /\ (/\ sshDisconnected(c)
                  /\ panelIsConnected
                  /\ status.connectionId # c
                  /\ status.connectionId \in DOMAIN connections) => panelIsConnected'
              /\ (/\ disconnect(c, "ok")
                  /\ panelIsConnected
                  /\ status.connectionId = c) => ~panelIsConnected' ]_vars

\* C29: handling a progress sample of task B leaves the width shown for
\* every other task as it was.
CE_C29 ==
    [][ \/ bars' = bars
        \/ \A progress \in ProgressPayloads :
              handleTransferProgress(progress) =>
                  \A a \in DOMAIN bars \ {progress.taskId} :
                      bars'[a].width = bars[a].width ]_vars

(* --------------------------- specification ----------------------------- *)

\* gesture translation and the life of the tasks it creates
NextGesture ==
    \/ \E fileItem \in FileItems \cup {NoData} : handleDragStart(fileItem)
    \/ handleDragEnd
    \/ Len(calls) < MaxCalls /\ \E target \in PaneIds : handleDrop(target)
    \/ \E i \in 1..MaxCalls : initiateTransferResume(i)
    \/ \E taskId \in DOMAIN tasks : handleTransferCompleted(taskId)
    \/ \E taskId \in DOMAIN tasks : handleTransferFailed(taskId)

SpecGesture == Init /\ [][NextGesture]_vars

\* admission: many requests, terminal events and cancellations
NextAdmission ==
    \/ \E fileItem \in SampleItems : handleDragStart(fileItem)
    \/ handleDragEnd
    \/ Len(calls) < MaxAdmissionCalls /\ \E target \in SampleTargets : handleDrop(target)
    \/ \E i \in 1..MaxAdmissionCalls : initiateTransferResume(i)
    \/ \E taskId \in DOMAIN tasks : handleTransferCompleted(taskId)
    \/ \E taskId \in DOMAIN tasks : handleTransferFailed(taskId)
    \/ \E taskId \in DOMAIN tasks, reply \in {"ok", "error"} : cancelTransfer(taskId, reply)

SpecAdmission == Init /\ [][NextAdmission]_vars

\* progress broadcasting: the backend's event stream against the observers
NextProgress ==
    \/ \E fileItem \in SampleItems : handleDragStart(fileItem)
    \/ handleDragEnd
    \/ Len(calls) < MaxCalls /\ \E target \in SampleTargets : handleDrop(target)
    \/ \E i \in 1..MaxCalls : initiateTransferResume(i)
    \/ \E progress \in ProgressPayloads : handleTransferProgress(progress)
    \/ \E taskId \in DOMAIN tasks : handleTransferCompleted(taskId)
    \/ \E taskId \in DOMAIN tasks : handleTransferFailed(taskId)
    \/ \E taskId \in DOMAIN tasks, reply \in {"ok", "error"} : cancelTransfer(taskId, reply)

SpecProgress == Init /\ [][NextProgress]_vars

\* the Session Registry
NextSSH ==
    \/ issued < MaxConnects /\ \E config \in Configs, reply \in {"ok", "error"} :
           connect(config, reply)
    \/ \E connectionId \in 1..MaxConnects, reply \in {"ok", "error"} :
           disconnect(connectionId, reply)
    \/ \E connectionId \in 1..MaxConnects : sshDisconnected(connectionId)
    \/ \E connectionId \in 1..MaxConnects : setCurrentConnection(connectionId)

SpecSSH == Init /\ [][NextSSH]_vars

\* transfers started over a connection that the backend then reports lost
NextLoss ==
    \/ issued < MaxConnects /\ \E config \in SampleConfigs, reply \in {"ok", "error"} :
           connect(config, reply)
    \/ \E connectionId \in 1..MaxConnects : sshDisconnected(connectionId)
    \/ \E fileItem \in SampleItems : handleDragStart(fileItem)
    \/ Len(calls) < MaxCalls /\ \E target \in SampleTargets : handleDrop(target)
    \/ \E i \in 1..MaxCalls : initiateTransferResume(i)
    \/ \E taskId \in DOMAIN tasks : handleTransferCompleted(taskId)
    \/ \E taskId \in DOMAIN tasks : handleTransferFailed(taskId)

SpecLoss == Init /\ [][NextLoss]_vars

\* the calls a user of the queue manager makes about the tasks it has created
NextQueue ==
    \/ \E fileItem \in SampleItems : handleDragStart(fileItem)
    \/ Len(calls) < MaxCalls /\ \E target \in SampleTargets : handleDrop(target)
    \/ \E i \in 1..MaxCalls : initiateTransferResume(i)
    \/ \E taskId \in DOMAIN tasks : handleTransferCompleted(taskId)
    \/ \E taskId \in DOMAIN tasks : handleTransferFailed(taskId)
    \/ \E taskId \in DOMAIN tasks, reply \in {"ok", "error"} : cancelTransfer(taskId, reply)
    \/ \E taskId \in DOMAIN tasks, reply \in {"ok", "error"} : retryTransfer(taskId, reply)
    \/ \E taskId \in DOMAIN tasks, reply \in {"ok", "error"} :
           getTransferProgress(taskId, reply)
    \/ \E reply \in {"ok", "error"} : getActiveTransfers(reply)

SpecQueue == Init /\ [][NextQueue]_vars

\* observers registered by showTransferProgress and by other clients, and the
\* samples of the tasks while they run
NextObservers ==
    \/ \E fileItem \in SampleItems : handleDragStart(fileItem)
    \/ Len(calls) < MaxCalls /\ \E target \in SampleTargets : handleDrop(target)
    \/ \E i \in 1..MaxCalls : initiateTransferResume(i)
    \/ \E taskId \in DOMAIN tasks, callback \in DOMAIN bars : onProgressCall(taskId, callback)
    \/ \E progress \in OneBytePayloads : handleTransferProgress(progress)

SpecObservers == Init /\ [][NextObservers]_vars

\* the operations of the two managers that call the backend, each with a
\* reply that resolves and one that rejects
NextCalls ==
    \/ issued < MaxConnects /\ \E config \in SampleConfigs, reply \in {"ok", "error"} :
           connect(config, reply)
    \/ \E connectionId \in 1..MaxConnects, reply \in {"true", "false", "error"} :
           isConnected(connectionId, reply)
    \/ \E reply \in {"ok", "error"} : listConnections(reply)
    \/ \E fileItem \in SampleItems : handleDragStart(fileItem)
    \/ Len(calls) < MaxCalls /\ \E target \in SampleTargets : handleDrop(target)
    \/ \E i \in 1..MaxCalls : initiateTransferResume(i)
    \/ \E taskId \in DOMAIN tasks, reply \in {"ok", "error"} : cancelTransfer(taskId, reply)
    \/ \E taskId \in DOMAIN tasks, reply \in {"ok", "error"} : retryTransfer(taskId, reply)
    \/ \E taskId \in DOMAIN tasks, reply \in {"ok", "error"} :
           getTransferProgress(taskId, reply)
    \/ \E reply \in {"ok", "error"} : getActiveTransfers(reply)

SpecCalls == Init /\ [][NextCalls]_vars

\* the SSH configuration dialog, next to the registry it connects through
NextConfig ==
    \/ issued < MaxConnects /\ \E form \in FormInputs, reply \in {"ok", "error"} :
           handleFormSubmit(form, reply)
    \/ \E reply \in {"ok", "error"} : configManagerDisconnect(reply)
    \/ \E connectionId \in 1..MaxConnects, reply \in {"ok", "error"} :
           disconnect(connectionId, reply)
    \/ \E connectionId \in 1..MaxConnects : sshDisconnected(connectionId)

SpecConfig == Init /\ [][NextConfig]_vars

\* the broadcaster: the events of several tasks against their observers
NextBroadcast ==
    \/ \E fileItem \in SampleItems : handleDragStart(fileItem)
    \/ Len(calls) < MaxCalls /\ \E target \in SampleTargets : handleDrop(target)
    \/ \E i \in 1..MaxCalls : initiateTransferResume(i)
    \/ \E progress \in OneBytePayloads : handleTransferProgress(progress)
    \/ \E taskId \in DOMAIN tasks : handleTransferCompleted(taskId)
    \/ \E taskId \in DOMAIN tasks : handleTransferFailed(taskId)

SpecBroadcast == Init /\ [][NextBroadcast]_vars

\* application start: the two auto-connects, then the session's events
NextStartup ==
    \/ issued < MaxConnects /\ \E sshConfig \in Configs, reply \in {"ok", "error"} :
           initializeSSHConnection(sshConfig, reply)
    \/ issued < MaxConnects /\ \E storedCredentials \in StoredCredentials,
                                   reply \in {"ok", "error"} :
           attemptAutoConnect(storedCredentials, reply)
    \/ \E connectionId \in 1..MaxConnects, reply \in {"ok", "error"} :
           disconnect(connectionId, reply)
    \/ \E connectionId \in 1..MaxConnects : sshDisconnected(connectionId)

SpecStartup == Init /\ [][NextStartup]_vars

\* the ConnectionPanel beside another user of the registry
NextPanel ==
    \/ issued < MaxConnects /\ \E credentials \in StoredCredentials,
                                   reply \in {"ok", "error"} :
           testConnection(credentials, reply)
    \/ issued < MaxConnects /\ \E config \in Configs, reply \in {"ok", "error"} :
           connect(config, reply)
    \/ \E connectionId \in 1..MaxConnects, reply \in {"ok", "error"} :
           disconnect(connectionId, reply)
    \/ \E connectionId \in 1..MaxConnects : sshDisconnected(connectionId)

SpecPanel == Init /\ [][NextPanel]_vars

Next ==
    \/ \E fileItem \in FileItems \cup {NoData} : handleDragStart(fileItem)
    \/ handleDragEnd
    \/ Len(calls) < MaxCalls /\ \E target \in PaneIds : handleDrop(target)
    \/ \E i \in 1..MaxCalls : initiateTransferResume(i)
    \/ \E progress \in ProgressPayloads : handleTransferProgress(progress)
    \/ \E taskId \in DOMAIN tasks : handleTransferCompleted(taskId)
    \/ \E taskId \in DOMAIN tasks : handleTransferFailed(taskId)
    \/ \E taskId \in DOMAIN tasks, reply \in {"ok", "error"} : cancelTransfer(taskId, reply)
    \/ \E taskId \in DOMAIN tasks, reply \in {"ok", "error"} : retryTransfer(taskId, reply)
    \/ \E taskId \in DOMAIN tasks, reply \in {"ok", "error"} :
           getTransferProgress(taskId, reply)
    \/ \E reply \in {"ok", "error"} : getActiveTransfers(reply)
    \/ \E taskId \in DOMAIN tasks, callback \in DOMAIN bars : onProgressCall(taskId, callback)
    \/ \E connectionId \in 1..MaxConnects, reply \in {"true", "false", "error"} :
           isConnected(connectionId, reply)
    \/ \E reply \in {"ok", "error"} : listConnections(reply)
    \/ issued < MaxConnects /\ \E form \in FormInputs, reply \in {"ok", "error"} :
           handleFormSubmit(form, reply)
    \/ \E reply \in {"ok", "error"} : configManagerDisconnect(reply)
    \/ \E connectionId \in 1..MaxConnects : sshConnected(connectionId)
    \/ issued < MaxConnects /\ \E sshConfig \in Configs, reply \in {"ok", "error"} :
           initializeSSHConnection(sshConfig, reply)
    \/ issued < MaxConnects /\ \E storedCredentials \in StoredCredentials,
                                   reply \in {"ok", "error"} :
           attemptAutoConnect(storedCredentials, reply)
    \/ issued < MaxConnects /\ \E credentials \in StoredCredentials,
                                   reply \in {"ok", "error"} :
           testConnection(credentials, reply)
    \/ NextSSH

Spec == Init /\ [][Next]_vars

====
